---- MODULE Spec2Model ----
(***************************************************************************)
(* GearPulse (src/scraper.py): one run of the scraper.                     *)
(*                                                                         *)
(* run_scraper is a single sequential coroutine: it launches a browser,    *)
(* crawls three category pages (scrape_page), sends the collected ads to   *)
(* the reasoning service in one request (analyze_ads_batch), sends one     *)
(* Telegram message per returned deal (send_telegram) and closes the       *)
(* browser.  The state is the coroutine's position (pc), its locals and    *)
(* the effects it has had on the outside world (requests made, messages    *)
(* sent, browser open or not).  The outside world (page loads, the page    *)
(* elements, the reasoning service's answer, message delivery) is chosen   *)
(* nondeterministically from small sets.                                   *)
(***************************************************************************)
EXTENDS Integers, Sequences, FiniteSets, TLC

VARIABLES
    pc,            \* position of run_scraper / scrape_page
    cat,           \* i of `for i, category in enumerate(categories)`
    attempt,       \* attempt of `for attempt in range(retries)`
    nAds,          \* len(ad_elements) of the page being extracted
    pos,           \* number of elements of ad_elements already iterated
    seen_ad_ids,   \* the set seen_ad_ids
    captured_ads,  \* the list captured_ads
    deals,         \* the list returned by analyze_ads_batch
    dealIdx,       \* 1-based position of the `for deal in deals` loop
    requests,      \* generate_content calls made (the ads list of each prompt)
    sent,          \* requests.post calls made by send_telegram
    browserOpen,   \* the chromium process launched at line 140 is alive
    crash,         \* the exception propagating out of run_scraper, or "none"
    failed,        \* categories whose page load failed on every attempt
    evalFailed,    \* analyze_ads_batch took its except branch
    branch,        \* the branch the last executed step took
    missing,       \* the configuration values os.getenv returned None for
    text,          \* clean_price on its own: its argument
    cleaned,       \* clean_price on its own: its result
    recleaned      \* clean_price on its own: its result on str(cleaned)

vars == <<pc, cat, attempt, nAds, pos, seen_ad_ids, captured_ads, deals,
          dealIdx, requests, sent, browserOpen, crash, failed, evalFailed,
          branch, missing, text, cleaned, recleaned>>

\* what a run of the scraper never changes
fixed == <<missing, text, cleaned, recleaned>>

----------------------------------------------------------------------------
(* Bounds of the model *)

\* number of distinct ad ids the marketplace pages can show
NumIds == 2
\* largest number of listing elements on one category page
MaxAds == 2
\* largest number of entries in the reasoning service's answer
MaxDeals == 2
\* largest number of parts a price text is made of
MaxParts == 3
\* largest number of digits in a price text
MaxDigits == 7

----------------------------------------------------------------------------
(* Program constants *)

\* categories = [...]  (three categories)
NumCats == 3
\* scrape_page(..., retries=3)
Retries == 3
\* `val > 5000`
Threshold == 5000

\* clean_price returns None: represented by -1 (no price is negative)
None == 0 - 1

----------------------------------------------------------------------------
(* Text: a string is a sequence of one-character strings *)

Digits == <<"0", "1", "2", "3", "4", "5", "6", "7", "8", "9">>

IsDigit(c) == \E i \in 1..10 : Digits[i] = c

DigitVal(c) == (CHOOSE i \in 1..10 : Digits[i] = c) - 1

\* str.lower() on the letters the price texts use
LowerChar(c) ==
    CASE c = "D" -> "d"
      [] c = "O" -> "o"
      [] c = "G" -> "g"
      [] c = "V" -> "v"
      [] c = "R" -> "r"
      [] c = "I" -> "i"
      [] c = "N" -> "n"
      [] c = "P" -> "p"
      [] c = "U" -> "u"
      [] c = "L" -> "l"
      [] OTHER -> c

Lower(s) == [i \in 1..Len(s) |-> LowerChar(s[i])]

\* `sub in s`
Contains(sub, s) ==
    \E k \in 0..(Len(s) - Len(sub)) :
        \A i \in 1..Len(sub) : s[k + i] = sub[i]

\* "".join(filter(str.isdigit, s))
RECURSIVE FilterDigits(_)
FilterDigits(s) ==
    IF s = <<>> THEN <<>>
    ELSE IF IsDigit(Head(s)) THEN <<Head(s)>> \o FilterDigits(Tail(s))
    ELSE FilterDigits(Tail(s))

\* int(numeric_part)
RECURSIVE ToInt(_)
ToInt(ds) ==
    IF ds = <<>> THEN 0
    ELSE 10 * ToInt(SubSeq(ds, 1, Len(ds) - 1)) + DigitVal(ds[Len(ds)])

\* round(val / 117.4): val/117.4 is never half-way between two integers
\* (10*val = 1174*n + 587 has no integer solution), so rounding to nearest is
\* floor((10*val + 587) / 1174)
RoundDiv(val) == (10 * val + 587) \div 1174

\* clean_price with `val >= 5000`
clean_price_AtThreshold(price_str) ==
    IF price_str = <<>> \/ Contains(<<"d", "o", "g", "o", "v", "o", "r">>, Lower(price_str))
    THEN None
    ELSE LET numeric_part == FilterDigits(price_str) IN
         IF numeric_part = <<>> THEN None
         ELSE LET val == ToInt(numeric_part) IN
              IF Contains(<<"d", "i", "n">>, Lower(price_str)) \/ val >= Threshold
              THEN RoundDiv(val)
              ELSE val

\* clean_price with the threshold mistyped as 500
clean_price_LowThreshold(price_str) ==
    IF price_str = <<>> \/ Contains(<<"d", "o", "g", "o", "v", "o", "r">>, Lower(price_str))
    THEN None
    ELSE LET numeric_part == FilterDigits(price_str) IN
         IF numeric_part = <<>> THEN None
         ELSE LET val == ToInt(numeric_part) IN
              IF Contains(<<"d", "i", "n">>, Lower(price_str)) \/ val > 500
              THEN RoundDiv(val)
              ELSE val

clean_price(price_str) ==
    IF price_str = <<>> \/ Contains(<<"d", "o", "g", "o", "v", "o", "r">>, Lower(price_str))
    THEN None
    ELSE LET numeric_part == FilterDigits(price_str) IN
         IF numeric_part = <<>> THEN None
         ELSE LET val == ToInt(numeric_part) IN
              IF Contains(<<"d", "i", "n">>, Lower(price_str)) \/ val > Threshold
              THEN RoundDiv(val)
              ELSE val

\* str(n) of a non-negative integer
RECURSIVE ToStr(_)
ToStr(n) ==
    IF n < 10 THEN <<Digits[n + 1]>>
    ELSE ToStr(n \div 10) \o <<Digits[(n % 10) + 1]>>

\* `if price_eur:` replaced by no test at all
Truthy_Always(price_eur) == TRUE

\* `if price_eur:` replaced by `if price_eur is not None:`
Truthy_NotNone(price_eur) == price_eur # None

\* `if price_eur:` None and 0 are falsy
Truthy(price_eur) == price_eur # None /\ price_eur # 0

----------------------------------------------------------------------------
(* The page elements the marketplace can show *)

Ids == 1..NumIds

\* inner text of the AdItem_price element
Eur450 == <<"4", "5", "0">>
Big6000 == <<"6", "0", "0", "0">>
Negotiable == <<"P", "o", " ", "d", "o", "g", "o", "v", "o", "r", "u">>
Din50 == <<"5", "0", " ", "d", "i", "n">>

\* `cond_el` is None: the element has no AdItem_condition child
NoCondEl == <<"<none>">>

\* inner text of the AdItem_condition element
Novo == <<"N", "o", "v", "o">>

\* the price and condition texts an element can show
Shown ==
    { [price |-> Eur450, cond |-> Novo],
      [price |-> Big6000, cond |-> NoCondEl],
      [price |-> Negotiable, cond |-> NoCondEl],
      [price |-> Din50, cond |-> Novo] }

\* An element of ad_elements.  err says where reading it raises: "none",
\* "id" (get_attribute("id") raises: stale element) or "field" (a title,
\* price or link element is missing, or reading one raises).  Every ad has
\* one title and one href wherever it is listed.
OkElements ==
    { [id |-> i, err |-> "none", title |-> <<"title", i>>, price |-> v.price,
       cond |-> v.cond, href |-> <<"/ad/", i>>] :
      i \in Ids, v \in Shown }

BadElements ==
    { [id |-> i, err |-> e, title |-> <<"title", i>>, price |-> <<>>,
       cond |-> NoCondEl, href |-> <<"/ad/", i>>] :
      i \in Ids, e \in {"id", "field"} }

Elements == OkElements \cup BadElements

\* `condition = await cond_el.inner_text() if cond_el else "Polovno"` and
\* `"New" if "novo" in condition.lower() else "Used"`
Condition(cond) ==
    LET condition == IF cond = NoCondEl
                     THEN <<"P", "o", "l", "o", "v", "n", "o">>
                     ELSE cond
    IN IF Contains(<<"n", "o", "v", "o">>, Lower(condition)) THEN "New" ELSE "Used"

\* the dict appended to captured_ads; sourceId is not a key of the dict: it
\* records the id of the element the dict was built from
Listing(e) ==
    [title |-> e.title, price |-> clean_price(e.price),
     condition |-> Condition(e.cond), link |-> <<"BASE_URL", e.href>>,
     sourceId |-> e.id]

----------------------------------------------------------------------------
(* The reasoning service's answer *)

\* values the service can put in an entry's "id"
VerdictIds == (0 - 1)..NumIds

\* An entry of the JSON array.  kind "ok": an object with "id", "result" and
\* "reason"; "no_id" / "no_reason": an object without that key;
\* "not_object": an entry that is not an object (a number, a string).
\* The service is asked for "YES" entries only; one entry it can return
\* (for the first listing) says "NO".
OkVerdicts ==
    { [kind |-> "ok", id |-> i, result |-> "YES", reason |-> <<"reason", i>>] :
      i \in VerdictIds }
    \cup { [kind |-> "ok", id |-> 0, result |-> "NO", reason |-> <<"reason", 0>>] }

BadVerdicts ==
    { [kind |-> k, id |-> 0, result |-> "YES", reason |-> <<"reason", 0>>] :
      k \in {"no_id", "no_reason", "not_object"} }

Verdicts == OkVerdicts \cup BadVerdicts

DealLists == UNION { [1..n -> Verdicts] : n \in 0..MaxDeals }

\* ads_list_str: one line per ad, `ID: {i} | Item | Condition | Price`
Prompt(ads_data) ==
    [i \in 1..Len(ads_data) |->
        [ID |-> i - 1, Item |-> ads_data[i].title,
         Condition |-> ads_data[i].condition, Price |-> ads_data[i].price]]

\* captured_ads[ad_idx] does not raise IndexError: Python accepts
\* -len <= ad_idx < len
Indexable(ads, ad_idx) == 0 - Len(ads) <= ad_idx /\ ad_idx < Len(ads)

\* captured_ads[ad_idx]: a negative index counts from the end
Index(ads, ad_idx) ==
    IF ad_idx >= 0 THEN ads[ad_idx + 1] ELSE ads[Len(ads) + ad_idx + 1]

\* the exception the body of `for deal in deals` raises before send_telegram
\* is called, or "none"
DealError(deal, ads) ==
    CASE deal.kind = "not_object" -> "TypeError"
      [] deal.kind = "no_id" -> "KeyError"
      [] deal.kind \in {"ok", "no_reason"} /\ ~Indexable(ads, deal.id) -> "IndexError"
      [] deal.kind = "no_reason" -> "KeyError"
      [] OTHER -> "none"

\* msg: the fields of the alert text
Msg(original_ad, deal) ==
    [title |-> original_ad.title, price |-> original_ad.price,
     reason |-> deal.reason, link |-> original_ad.link]

----------------------------------------------------------------------------
(* Initial state: the module is being imported, run_scraper has not started *)

\* GEMINI_KEY, TELE_TOKEN, CHAT_ID, BASE_URL
ConfigKeys == {"GEMINI_API_KEY", "TELEGRAM_BOT_TOKEN", "TELEGRAM_CHAT_ID", "BASE_URL"}

RunInit ==
    /\ cat = 0
    /\ attempt = 0
    /\ nAds = 0
    /\ pos = 0
    /\ seen_ad_ids = {}
    /\ captured_ads = <<>>
    /\ deals = <<>>
    /\ dealIdx = 1
    /\ requests = <<>>
    /\ sent = <<>>
    /\ browserOpen = FALSE
    /\ crash = "none"
    /\ failed = {}
    /\ evalFailed = FALSE
    /\ branch = "init"
    /\ cleaned = None
    /\ recleaned = None

\* the configuration is complete, or the API key is not set
Init ==
    /\ pc = "start"
    /\ RunInit
    /\ text = <<>>
    /\ missing \in {{}, {"GEMINI_API_KEY"}}

\* any of the four configuration values may be unset
InitConfig ==
    /\ pc = "start"
    /\ RunInit
    /\ text = <<>>
    /\ missing \in SUBSET ConfigKeys

----------------------------------------------------------------------------
(* module level: configuration and client *)

\* `client = genai.Client(api_key=GEMINI_KEY)` with GEMINI_KEY None: the
\* client refuses to be built without a key, the import raises ValueError
\* and run_scraper is never called
ClientRefused ==
    /\ pc = "start"
    /\ "GEMINI_API_KEY" \in missing
    /\ crash' = "ValueError"
    /\ pc' = "aborted"
    /\ branch' = "no_client"
    /\ UNCHANGED <<cat, attempt, nAds, pos, seen_ad_ids, captured_ads, deals,
                   dealIdx, requests, sent, browserOpen, failed, evalFailed>>
    /\ UNCHANGED fixed

----------------------------------------------------------------------------
(* run_scraper: browser launch *)

Launch ==
    /\ pc = "start"
    /\ "GEMINI_API_KEY" \notin missing
    /\ pc' = "goto"
    /\ browserOpen' = TRUE
    /\ branch' = "launch"
    /\ UNCHANGED <<cat, attempt, nAds, pos, seen_ad_ids, captured_ads, deals,
                   dealIdx, requests, sent, crash, failed, evalFailed>>
    /\ UNCHANGED fixed

----------------------------------------------------------------------------
(* scrape_page: page load with retries *)

\* page.goto returns; with BASE_URL None the url is "None/muzicki-..." and
\* goto always raises (invalid URL)
GotoOk ==
    /\ pc = "goto"
    /\ "BASE_URL" \notin missing
    /\ pc' = "wait"
    /\ branch' = "goto_ok"
    /\ UNCHANGED <<cat, attempt, nAds, pos, seen_ad_ids, captured_ads, deals,
                   dealIdx, requests, sent, browserOpen, crash, failed,
                   evalFailed>>
    /\ UNCHANGED fixed

\* GotoFail with `attempt < retries`: one attempt too many
GotoFail_OneMore ==
    /\ pc = "goto"
    /\ IF attempt < Retries
       THEN /\ pc' = "retry_sleep"
            /\ branch' = "goto_retry"
            /\ UNCHANGED <<attempt, failed>>
       ELSE /\ pc' = "pace"
            /\ attempt' = 0
            /\ failed' = failed \cup {cat}
            /\ branch' = "goto_failed"
    /\ UNCHANGED <<cat, nAds, pos, seen_ad_ids, captured_ads, deals, dealIdx,
                   requests, sent, browserOpen, crash, evalFailed>>
    /\ UNCHANGED fixed

\* page.goto raises: sleep and retry, or give up after the last attempt
GotoFail ==
    /\ pc = "goto"
    /\ IF attempt < Retries - 1
       THEN /\ pc' = "retry_sleep"
            /\ branch' = "goto_retry"
            /\ UNCHANGED <<attempt, failed>>
       ELSE /\ pc' = "pace"
            /\ attempt' = 0
            /\ failed' = failed \cup {cat}
            /\ branch' = "goto_failed"
    /\ UNCHANGED <<cat, nAds, pos, seen_ad_ids, captured_ads, deals, dealIdx,
                   requests, sent, browserOpen, crash, evalFailed>>
    /\ UNCHANGED fixed

\* asyncio.sleep(2) returns: next attempt
RetrySleep ==
    /\ pc = "retry_sleep"
    /\ pc' = "goto"
    /\ attempt' = attempt + 1
    /\ branch' = "sleep"
    /\ UNCHANGED <<cat, nAds, pos, seen_ad_ids, captured_ads, deals, dealIdx,
                   requests, sent, browserOpen, crash, failed, evalFailed>>
    /\ UNCHANGED fixed

----------------------------------------------------------------------------
(* scrape_page: wait for a listing element, then enumerate them *)

\* wait_for_selector returns and query_selector_all gives n elements
WaitOk ==
    /\ pc = "wait"
    /\ \E n \in 1..MaxAds : nAds' = n
    /\ pos' = 0
    /\ attempt' = 0
    /\ pc' = "extract"
    /\ branch' = "wait_ok"
    /\ UNCHANGED <<cat, seen_ad_ids, captured_ads, deals, dealIdx, requests,
                   sent, browserOpen, crash, failed, evalFailed>>
    /\ UNCHANGED fixed

\* wait_for_selector raises TimeoutError (no listing element within 15 s):
\* nothing catches it in scrape_page or run_scraper
WaitTimeout ==
    /\ pc = "wait"
    /\ crash' = "TimeoutError"
    /\ attempt' = 0
    /\ pc' = "exit"
    /\ branch' = "wait_timeout"
    /\ UNCHANGED <<cat, nAds, pos, seen_ad_ids, captured_ads, deals, dealIdx,
                   requests, sent, browserOpen, failed, evalFailed>>
    /\ UNCHANGED fixed

\* ProcessAd without the `if ad_id in seen_ad_ids: continue` test
ProcessAd_NoSeenTest(e, seen, ads) ==
    IF e.err = "id"
    THEN [seen |-> seen, ads |-> ads, branch |-> "id_error"]
    ELSE IF e.err = "field"
    THEN [seen |-> seen \cup {e.id}, ads |-> ads, branch |-> "field_error"]
    ELSE IF Truthy(clean_price(e.price))
    THEN [seen |-> seen \cup {e.id}, ads |-> Append(ads, Listing(e)),
          branch |-> "collected"]
    ELSE [seen |-> seen \cup {e.id}, ads |-> ads,
          branch |-> IF clean_price(e.price) = None THEN "noprice" ELSE "zero"]

\* ProcessAd with seen_ad_ids.add(ad_id) done only when the ad is appended
ProcessAd_SeenWhenCollected(e, seen, ads) ==
    IF e.err = "id"
    THEN [seen |-> seen, ads |-> ads, branch |-> "id_error"]
    ELSE IF e.id \in seen
    THEN [seen |-> seen, ads |-> ads, branch |-> "dup"]
    ELSE IF e.err = "field"
    THEN [seen |-> seen, ads |-> ads, branch |-> "field_error"]
    ELSE IF Truthy(clean_price(e.price))
    THEN [seen |-> seen \cup {e.id}, ads |-> Append(ads, Listing(e)),
          branch |-> "collected"]
    ELSE [seen |-> seen, ads |-> ads,
          branch |-> IF clean_price(e.price) = None THEN "noprice" ELSE "zero"]

\* the body of `for ad in ad_elements` on element e: the new seen_ad_ids and
\* captured_ads, and the branch taken
ProcessAd(e, seen, ads) ==
    IF e.err = "id"
    THEN [seen |-> seen, ads |-> ads, branch |-> "id_error"]
    ELSE IF e.id \in seen
    THEN [seen |-> seen, ads |-> ads, branch |-> "dup"]
    ELSE IF e.err = "field"
    THEN [seen |-> seen \cup {e.id}, ads |-> ads, branch |-> "field_error"]
    ELSE IF Truthy(clean_price(e.price))
    THEN [seen |-> seen \cup {e.id}, ads |-> Append(ads, Listing(e)),
          branch |-> "collected"]
    ELSE [seen |-> seen \cup {e.id}, ads |-> ads,
          branch |-> IF clean_price(e.price) = None THEN "noprice" ELSE "zero"]

\* ExtractAd with the try/except around the whole loop: an error ends it
ExtractAd_ErrorEndsLoop ==
    /\ pc = "extract"
    /\ pos < nAds
    /\ \E e \in Elements :
         LET r == ProcessAd(e, seen_ad_ids, captured_ads) IN
         /\ seen_ad_ids' = r.seen
         /\ captured_ads' = r.ads
         /\ branch' = r.branch
         /\ pos' = IF e.err = "none" THEN pos + 1 ELSE nAds
    /\ UNCHANGED <<pc, cat, attempt, nAds, deals, dealIdx, requests, sent,
                   browserOpen, crash, failed, evalFailed>>
    /\ UNCHANGED fixed

\* one iteration of `for ad in ad_elements`; the element's attributes are
\* read from the page during the iteration
ExtractAd ==
    /\ pc = "extract"
    /\ pos < nAds
    /\ \E e \in Elements :
         LET r == ProcessAd(e, seen_ad_ids, captured_ads) IN
         /\ seen_ad_ids' = r.seen
         /\ captured_ads' = r.ads
         /\ branch' = r.branch
    /\ pos' = pos + 1
    /\ UNCHANGED <<pc, cat, attempt, nAds, deals, dealIdx, requests, sent,
                   browserOpen, crash, failed, evalFailed>>
    /\ UNCHANGED fixed

\* ad_elements is exhausted: scrape_page returns
ExtractEnd ==
    /\ pc = "extract"
    /\ pos = nAds
    /\ pc' = "pace"
    /\ nAds' = 0
    /\ pos' = 0
    /\ branch' = "page_done"
    /\ UNCHANGED <<cat, attempt, seen_ad_ids, captured_ads, deals, dealIdx,
                   requests, sent, browserOpen, crash, failed, evalFailed>>
    /\ UNCHANGED fixed

----------------------------------------------------------------------------
(* run_scraper: the loop over categories *)

\* `if i < len(categories) - 1: await asyncio.sleep(2)`, then next category
PaceSleep ==
    /\ pc = "pace"
    /\ cat < NumCats - 1
    /\ cat' = cat + 1
    /\ pc' = "goto"
    /\ branch' = "pace"
    /\ UNCHANGED <<attempt, nAds, pos, seen_ad_ids, captured_ads, deals,
                   dealIdx, requests, sent, browserOpen, crash, failed,
                   evalFailed>>
    /\ UNCHANGED fixed

\* CrawlDone with the evaluation inside the loop over categories
CrawlDone_InsideLoop ==
    /\ pc = "pace"
    /\ cat' = NumCats
    /\ pc' = "eval"
    /\ branch' = "crawl_done"
    /\ UNCHANGED <<attempt, nAds, pos, seen_ad_ids, captured_ads, deals,
                   dealIdx, requests, sent, browserOpen, crash, failed,
                   evalFailed>>
    /\ UNCHANGED fixed

\* the last category has been scraped: the loop ends
CrawlDone ==
    /\ pc = "pace"
    /\ cat = NumCats - 1
    /\ cat' = NumCats
    /\ pc' = "eval"
    /\ branch' = "crawl_done"
    /\ UNCHANGED <<attempt, nAds, pos, seen_ad_ids, captured_ads, deals,
                   dealIdx, requests, sent, browserOpen, crash, failed,
                   evalFailed>>
    /\ UNCHANGED fixed

----------------------------------------------------------------------------
(* analyze_ads_batch *)

\* generate_content returns and json.loads parses its text
EvalOk ==
    /\ pc = "eval"
    /\ requests' = Append(requests, Prompt(captured_ads))
    /\ \E ds \in DealLists : deals' = ds
    /\ pc' = "notify"
    /\ branch' = "eval_ok"
    /\ UNCHANGED <<cat, attempt, nAds, pos, seen_ad_ids, captured_ads,
                   dealIdx, sent, browserOpen, crash, failed, evalFailed>>
    /\ UNCHANGED fixed

\* EvalFail without the try/except: the exception propagates
EvalFail_Propagates ==
    /\ pc = "eval"
    /\ requests' = Append(requests, Prompt(captured_ads))
    /\ evalFailed' = TRUE
    /\ crash' = "Exception"
    /\ pc' = "exit"
    /\ branch' = "eval_failed"
    /\ UNCHANGED <<cat, attempt, nAds, pos, seen_ad_ids, captured_ads, deals,
                   dealIdx, sent, browserOpen, failed>>
    /\ UNCHANGED fixed

\* EvalFail with the request made again after the failure
EvalFail_Retries ==
    /\ pc = "eval"
    /\ requests' = requests \o <<Prompt(captured_ads), Prompt(captured_ads)>>
    /\ deals' = <<>>
    /\ evalFailed' = TRUE
    /\ pc' = "notify"
    /\ branch' = "eval_failed"
    /\ UNCHANGED <<cat, attempt, nAds, pos, seen_ad_ids, captured_ads,
                   dealIdx, sent, browserOpen, crash, failed>>
    /\ UNCHANGED fixed

\* generate_content or json.loads raises: `except Exception: return []`
EvalFail ==
    /\ pc = "eval"
    /\ requests' = Append(requests, Prompt(captured_ads))
    /\ deals' = <<>>
    /\ evalFailed' = TRUE
    /\ pc' = "notify"
    /\ branch' = "eval_failed"
    /\ UNCHANGED <<cat, attempt, nAds, pos, seen_ad_ids, captured_ads,
                   dealIdx, sent, browserOpen, crash, failed>>
    /\ UNCHANGED fixed

----------------------------------------------------------------------------
(* run_scraper: `for deal in deals` *)

\* the body raises before send_telegram is called (deal['id'],
\* captured_ads[ad_idx] or deal['reason']): nothing catches it
NotifyCrash ==
    /\ pc = "notify"
    /\ dealIdx <= Len(deals)
    /\ DealError(deals[dealIdx], captured_ads) # "none"
    /\ crash' = DealError(deals[dealIdx], captured_ads)
    /\ pc' = "exit"
    /\ branch' = "verdict_crash"
    /\ UNCHANGED <<cat, attempt, nAds, pos, seen_ad_ids, captured_ads, deals,
                   dealIdx, requests, sent, browserOpen, failed, evalFailed>>
    /\ UNCHANGED fixed

\* send_telegram(msg): requests.post returns (whatever the HTTP status: the
\* response is not looked at)
NotifySend ==
    /\ pc = "notify"
    /\ dealIdx <= Len(deals)
    /\ DealError(deals[dealIdx], captured_ads) = "none"
    /\ sent' = Append(sent,
                 [deal |-> dealIdx,
                  msg |-> Msg(Index(captured_ads, deals[dealIdx].id),
                              deals[dealIdx])])
    /\ dealIdx' = dealIdx + 1
    /\ branch' = "sent"
    /\ UNCHANGED <<pc, cat, attempt, nAds, pos, seen_ad_ids, captured_ads,
                   deals, requests, browserOpen, crash, failed, evalFailed>>
    /\ UNCHANGED fixed

\* send_telegram(msg): requests.post raises (connection error, timeout):
\* nothing catches it
NotifySendRaises ==
    /\ pc = "notify"
    /\ dealIdx <= Len(deals)
    /\ DealError(deals[dealIdx], captured_ads) = "none"
    /\ sent' = Append(sent,
                 [deal |-> dealIdx,
                  msg |-> Msg(Index(captured_ads, deals[dealIdx].id),
                              deals[dealIdx])])
    /\ crash' = "RequestException"
    /\ pc' = "exit"
    /\ branch' = "send_raised"
    /\ UNCHANGED <<cat, attempt, nAds, pos, seen_ad_ids, captured_ads, deals,
                   dealIdx, requests, browserOpen, failed, evalFailed>>
    /\ UNCHANGED fixed

\* the loop over deals ends
NotifyEnd ==
    /\ pc = "notify"
    /\ dealIdx > Len(deals)
    /\ pc' = "close"
    /\ branch' = "notify_done"
    /\ UNCHANGED <<cat, attempt, nAds, pos, seen_ad_ids, captured_ads, deals,
                   dealIdx, requests, sent, browserOpen, crash, failed,
                   evalFailed>>
    /\ UNCHANGED fixed

----------------------------------------------------------------------------
(* run_scraper: end of the run *)

\* `await browser.close()`
Close ==
    /\ pc = "close"
    /\ browserOpen' = FALSE
    /\ pc' = "exit"
    /\ branch' = "closed"
    /\ UNCHANGED <<cat, attempt, nAds, pos, seen_ad_ids, captured_ads, deals,
                   dealIdx, requests, sent, crash, failed, evalFailed>>
    /\ UNCHANGED fixed

\* ExitPlaywright if stopping Playwright left the browser alone
ExitPlaywright_LeavesBrowser ==
    /\ pc = "exit"
    /\ pc' = IF crash = "none" THEN "done" ELSE "aborted"
    /\ branch' = "exit"
    /\ UNCHANGED <<cat, attempt, nAds, pos, seen_ad_ids, captured_ads, deals,
                   dealIdx, requests, sent, browserOpen, crash, failed,
                   evalFailed>>
    /\ UNCHANGED fixed

\* leaving `async with async_playwright() as p`, normally or with an
\* exception propagating: Playwright is stopped, which ends the driver and
\* every browser it launched
ExitPlaywright ==
    /\ pc = "exit"
    /\ browserOpen' = FALSE
    /\ pc' = IF crash = "none" THEN "done" ELSE "aborted"
    /\ branch' = "exit"
    /\ UNCHANGED <<cat, attempt, nAds, pos, seen_ad_ids, captured_ads, deals,
                   dealIdx, requests, sent, crash, failed, evalFailed>>
    /\ UNCHANGED fixed

----------------------------------------------------------------------------

(* clean_price on its own *)

\* the pieces price texts are made of
Parts ==
    { <<"0">>, <<"1">>, <<"5">>, <<"0", "0">>, <<"4", "5">>,
      <<"6", "0", "0", "0">>, <<"5", "3", "0", "0", "0">>,
      <<" ">>, <<"d", "i", "n">>, <<"D", "i", "n">>, <<"e", "u", "r">>,
      <<"d", "o">>, <<"g", "o", "v", "o", "r">>,
      <<"D", "O", "G", "O", "V", "O", "R">>,
      <<"P", "o", " ", "d", "o", "g", "o", "v", "o", "r", "u">> }

RECURSIVE Flatten(_)
Flatten(ps) == IF ps = <<>> THEN <<>> ELSE Head(ps) \o Flatten(Tail(ps))

\* the price texts clean_price is applied to
Texts ==
    { t \in { Flatten(ps) : ps \in UNION { [1..n -> Parts] : n \in 0..MaxParts } } :
        Len(FilterDigits(t)) <= MaxDigits }

InitPrice ==
    /\ pc = "price"
    /\ RunInit
    /\ missing = {}
    /\ text \in Texts

\* price_eur = clean_price(text)
CleanPrice ==
    /\ pc = "price"
    /\ cleaned' = clean_price(text)
    /\ pc' = "cleaned"
    /\ UNCHANGED <<cat, attempt, nAds, pos, seen_ad_ids, captured_ads, deals,
                   dealIdx, requests, sent, browserOpen, crash, failed,
                   evalFailed, branch, missing, text, recleaned>>

\* clean_price(str(price_eur)) on an integer result
CleanAgain ==
    /\ pc = "cleaned"
    /\ cleaned # None
    /\ recleaned' = clean_price(ToStr(cleaned))
    /\ pc' = "recleaned"
    /\ UNCHANGED <<cat, attempt, nAds, pos, seen_ad_ids, captured_ads, deals,
                   dealIdx, requests, sent, browserOpen, crash, failed,
                   evalFailed, branch, missing, text, cleaned>>

NextPrice ==
    \/ CleanPrice
    \/ CleanAgain

SpecPrice == InitPrice /\ [][NextPrice]_vars

----------------------------------------------------------------------------

Next ==
    \/ ClientRefused
    \/ Launch
    \/ GotoOk
    \/ GotoFail
    \/ RetrySleep
    \/ WaitOk
    \/ WaitTimeout
    \/ ExtractAd
    \/ ExtractEnd
    \/ PaceSleep
    \/ CrawlDone
    \/ EvalOk
    \/ EvalFail
    \/ NotifyCrash
    \/ NotifySend
    \/ NotifySendRaises
    \/ NotifyEnd
    \/ Close
    \/ ExitPlaywright

Spec == Init /\ [][Next]_vars

\* the run under every configuration
SpecConfig == InitConfig /\ [][Next]_vars

\* the run has ended
Terminated == pc \in {"done", "aborted"}

----------------------------------------------------------------------------
(* Properties *)

\* deal k is a well-formed entry whose id is a position of captured_ads
InRange(k) ==
    /\ deals[k].kind = "ok"
    /\ 0 <= deals[k].id
    /\ deals[k].id < Len(captured_ads)

\* a messaging call was made for deal k
Called(k) == \E m \in 1..Len(sent) : sent[m].deal = k

\* the run stopped in the body of the loop on deal k, with an exception
CrashedAt(k) == crash # "none" /\ pc \in {"exit", "aborted"} /\ cat = NumCats
                /\ dealIdx = k /\ k <= Len(deals)

\* C1: in every state, no two listings of captured_ads come from page
\* elements with the same id, whatever ids the elements of the category
\* pages carry.
C1_Dedup ==
    \A i, j \in 1..Len(captured_ads) :
        i # j => captured_ads[i].sourceId # captured_ads[j].sourceId

\* C1 witness: the first element of the second category's page carries the
\* id of the listing collected from the first page, and is skipped.
C1_Witness ==
    /\ branch = "dup"
    /\ cat = 1
    /\ pos = 1
    /\ Len(captured_ads) = 1
    /\ seen_ad_ids = {captured_ads[1].sourceId}

\* C2: a returned entry whose id is outside [0, len(captured_ads)),
\* negative ids included, gets no messaging call and the run does not stop
\* with an exception on it.
C2_IndexSafety ==
    \A k \in 1..Len(deals) :
        (deals[k].kind = "ok" /\ ~InRange(k)) => ~Called(k) /\ ~CrashedAt(k)

\* C3: when a category's page load has failed on every attempt, the
\* crawler goes on to the next category with no exception propagating, and
\* the run is not aborted: it ends normally, having made the reasoning
\* request on the listings of the other categories.
C3_PartialFailure ==
    /\ branch = "goto_failed" => (pc = "pace" /\ crash = "none")
    /\ (Terminated /\ failed # {}) =>
           /\ pc = "done"
           /\ Len(requests) = 1

\* C4: a run (with its configuration present) processes every category:
\* when it has ended, the loop over categories has gone through all of them.
C4_AllCategories == (Terminated /\ missing = {}) => cat = NumCats

\* C5: when the reasoning request fails or its answer does not parse, the
\* verdict list is empty, no messaging call is made and the run goes on to
\* its normal end with no exception propagating.
C5_EvalFailure ==
    evalFailed =>
        /\ deals = <<>>
        /\ sent = <<>>
        /\ crash = "none"
        /\ pc \in {"notify", "close", "exit", "done"}

\* C5 witness: a run with collected listings whose reasoning request failed
\* has ended normally.
C5_Witness ==
    /\ evalFailed
    /\ pc = "done"
    /\ Len(captured_ads) >= 1
    /\ sent = <<>>

\* C6: a messaging call that raises does not abort the run, and every
\* well-formed in-range entry of the list still gets its messaging call.
C6_DeliveryConfined ==
    /\ crash # "RequestException"
    /\ (Terminated /\ \A k \in 1..Len(deals) : InRange(k)) =>
           \A k \in 1..Len(deals) : Called(k)

\* C7: a malformed entry (no id, no reason, or not an object) gets no
\* messaging call and the run does not stop with an exception on it.
C7_MalformedSkipped ==
    \A k \in 1..Len(deals) :
        deals[k].kind \in {"no_id", "no_reason", "not_object"} =>
            ~Called(k) /\ ~CrashedAt(k)

\* C8: no reasoning request is made before the evaluation step; once the
\* step has been taken exactly one request has been made, whatever its
\* outcome, and it lists every listing of captured_ads in order with its
\* positional index.
C8_OneRequest ==
    IF cat = NumCats /\ pc # "eval"
    THEN /\ Len(requests) = 1
         /\ Len(requests[1]) = Len(captured_ads)
         /\ \A i \in 1..Len(captured_ads) :
              /\ requests[1][i].ID = i - 1
              /\ requests[1][i].Item = captured_ads[i].title
              /\ requests[1][i].Condition = captured_ads[i].condition
              /\ requests[1][i].Price = captured_ads[i].price
    ELSE requests = <<>>

\* C8 witness: a run whose reasoning request failed, over two listings, has
\* ended with that one request made.
C8_Witness ==
    /\ pc = "done"
    /\ evalFailed
    /\ Len(captured_ads) = 2
    /\ Len(requests) = 1

\* C9: when every returned entry is well-formed with an in-range id, the
\* run makes as many messaging calls as there are entries, the k-th for
\* captured_ads[id of the k-th entry] with that entry's reason.
C9_AlertsMatchVerdicts ==
    (Terminated /\ cat = NumCats /\ \A k \in 1..Len(deals) : InRange(k)) =>
        /\ Len(sent) = Len(deals)
        /\ \A k \in 1..Len(sent) :
             LET ad == captured_ads[deals[k].id + 1] IN
             /\ sent[k].msg.title = ad.title
             /\ sent[k].msg.price = ad.price
             /\ sent[k].msg.link = ad.link
             /\ sent[k].msg.reason = deals[k].reason

C11_FailFast ==
    missing # {} =>
        /\ branch # "goto_ok"
        /\ requests = <<>>
        /\ sent = <<>>
        /\ pc # "done"

\* v / 117.4 rounded to the nearest integer: the integer n with
\* |v/117.4 - n| < 1/2
Nearest(v) ==
    LET q == (10 * v) \div 1174 IN
    CHOOSE n \in {q, q + 1} :
        /\ 2 * (10 * v - 1174 * n) < 1174
        /\ 2 * (1174 * n - 10 * v) < 1174

\* the text holds the word w, whatever the case of its letters
HasWord(w, t) ==
    \E k \in 1..Len(t) :
        /\ k + Len(w) - 1 <= Len(t)
        /\ \A i \in 1..Len(w) : LowerChar(t[k + i - 1]) = w[i]

\* the integer formed by the digits of the text, read left to right
RECURSIVE DigitsValue(_, _)
DigitsValue(t, acc) ==
    IF t = <<>> THEN acc
    ELSE IF IsDigit(Head(t)) THEN DigitsValue(Tail(t), 10 * acc + DigitVal(Head(t)))
    ELSE DigitsValue(Tail(t), acc)

\* the reference of C12
RefPrice(t) ==
    IF t = <<>> \/ HasWord(<<"d", "o", "g", "o", "v", "o", "r">>, t) THEN None
    ELSE IF \A i \in 1..Len(t) : ~IsDigit(t[i]) THEN None
    ELSE LET v == DigitsValue(t, 0) IN
         IF HasWord(<<"d", "i", "n">>, t) \/ v > 5000 THEN Nearest(v) ELSE v

\* C12: for every price text, clean_price gives the reference: no price for
\* an empty or negotiable text or one without digits, otherwise the digits'
\* value v, converted by round(v / 117.4) if the text says "din" or
\* v > 5000; "" and "Po dogovoru" give no price, "450" 450, "53000 din" 451,
\* "6000" 51, and 5000 stays 5000.
C12_CleanPriceReference ==
    pc \in {"cleaned", "recleaned"} =>
        /\ cleaned = RefPrice(text)
        /\ text = <<>> => cleaned = None
        /\ text = Negotiable => cleaned = None
        /\ text = Eur450 => cleaned = 450
        /\ text = <<"5", "3", "0", "0", "0", " ", "d", "i", "n">> => cleaned = 451
        /\ text = Big6000 => cleaned = 51
        /\ text = <<"5", "0", "0", "0">> => cleaned = 5000

\* C12 witness: "53000 din" has been cleaned to 451.
C12_Witness ==
    /\ pc = "cleaned"
    /\ text = <<"5", "3", "0", "0", "0", " ", "d", "i", "n">>
    /\ cleaned = 451

\* C13 as stated: clean_price on the decimal string of any of its integer
\* results gives that result again.
C13_Idempotent == pc = "recleaned" => recleaned = cleaned

\* C13 amended: clean_price on the decimal string of an integer result of
\* at most 5000 gives that result again.
C13_IdempotentUpToThreshold ==
    (pc = "recleaned" /\ cleaned <= 5000) => recleaned = cleaned

\* C13 witness: "530000" has been cleaned to 4514, and "4514" to 4514.
C13_Witness ==
    /\ pc = "recleaned"
    /\ text = <<"5", "3", "0", "0", "0", "0">>
    /\ cleaned = 4514
    /\ recleaned = 4514

\* the prices clean_price gives for the price texts the pages show
ShownPrices == {clean_price(v.price) : v \in Shown}

\* C14: no listing of captured_ads carries "no price": each carries the
\* integer clean_price gave for a price text the page showed.
C14_NoPriceDiscarded ==
    \A i \in 1..Len(captured_ads) :
        /\ captured_ads[i].price # None
        /\ captured_ads[i].price \in ShownPrices

\* C14 witness: in the last category an element whose price text gives no
\* price has just been discarded.
C14_Witness ==
    /\ branch = "noprice"
    /\ cat = NumCats - 1
    /\ pc = "extract"

\* a step of scrape_page's load loop and the calls that are not retried
RetryStep ==
    /\ attempt' < 3
    /\ pc = "goto" =>
          \/ pc' = "wait" /\ branch' = "goto_ok"
          \/ attempt < 2 /\ pc' = "retry_sleep" /\ attempt' = attempt /\ failed' = failed
          \/ attempt = 2 /\ pc' = "pace" /\ failed' = failed \cup {cat}
    /\ pc' = "retry_sleep" => pc = "goto"
    /\ pc = "retry_sleep" => pc' = "goto" /\ attempt' = attempt + 1 /\ cat' = cat
    /\ (pc = "wait" /\ crash' = "none") => pc' = "extract"
    /\ pc' = "goto" => cat' \notin failed'
    /\ Len(requests') <= 1
    /\ \A m, n \in 1..Len(sent') : sent'[m].deal = sent'[n].deal => m = n

\* C15: a category's page load is attempted at most 3 times; a successful
\* attempt goes on to the extraction; a failed first or second attempt is
\* followed by one delay and the next attempt; a failed third attempt makes
\* the category failed, with no delay and no further attempt; the reasoning
\* request is made at most once and no entry gets two messaging calls.
C15_RetryBudget == [][RetryStep]_vars

\* C15 witness: a category has just failed its third attempt.
C15_Witness ==
    /\ branch = "goto_failed"
    /\ pc = "pace"
    /\ cat \in failed

\* element e is new, readable and priced
Collectable(e) ==
    /\ e.err = "none"
    /\ e.id \notin seen_ad_ids
    /\ clean_price(e.price) >= 1

\* an iteration of the extraction loop
ExtractStep ==
    (pc = "extract" /\ pos < nAds) =>
        /\ pc' = "extract"
        /\ pos' = pos + 1
        /\ nAds' = nAds
        /\ crash' = "none"
        /\ branch' \in {"id_error", "field_error"} => captured_ads' = captured_ads
        /\ \A e \in Elements :
             Collectable(e) =>
                 LET ads == ProcessAd(e, seen_ad_ids, captured_ads).ads IN
                 /\ Len(ads) = Len(captured_ads) + 1
                 /\ ads[Len(ads)].sourceId = e.id
                 /\ ads[Len(ads)].title = e.title

\* C16: an element whose reading raises is not added to captured_ads and the
\* loop goes on to the next element of the page with no exception
\* propagating; at every iteration, a new, readable and priced element is
\* collected.
C16_ErrorSkipsOne == [][ExtractStep]_vars

\* C16 witness: an element's reading has just raised and the page has more
\* elements to iterate.
C16_Witness ==
    /\ branch = "field_error"
    /\ pc = "extract"
    /\ pos < nAds

\* a step of the run, as to the order of its external operations
OrderedStep ==
    /\ cat' \in {cat, cat + 1}
    /\ cat' = cat + 1 => pc = "pace"
    /\ pc' \in {"goto", "retry_sleep", "wait", "extract", "pace"} =>
          /\ cat' < NumCats
          /\ requests' = <<>>
          /\ sent' = <<>>
    /\ requests' # requests => pc = "eval" /\ cat = NumCats /\ sent = <<>>
    /\ sent' # sent => pc = "notify" /\ Len(requests) = 1 /\ requests' = requests
    /\ Len(sent') <= Len(sent) + 1

\* C17: categories are crawled one at a time in list order, the reasoning
\* request is made only after the last category, a messaging call only
\* after the request has returned, and one step makes at most one call.
C17_Sequential == [][OrderedStep]_vars

\* C17 witness: a run over all three categories has made its request and
\* then two messaging calls, and has ended.
C17_Witness ==
    /\ pc = "done"
    /\ failed = {}
    /\ Len(requests) = 1
    /\ Len(sent) = 2

\* the ids of the elements the listings of captured_ads were built from
CollectedIds(ads) == { ads[i].sourceId : i \in 1..Len(ads) }

\* a step, as to seen_ad_ids
SeenStep ==
    /\ CollectedIds(captured_ads') \subseteq seen_ad_ids'
    /\ seen_ad_ids \subseteq seen_ad_ids'
    /\ (seen_ad_ids \ CollectedIds(captured_ads)) \cap CollectedIds(captured_ads') = {}
    /\ (pc = "extract" /\ pos' = pos + 1
        /\ branch' \in {"field_error", "noprice", "zero", "collected"}) =>
           Cardinality(seen_ad_ids') = Cardinality(seen_ad_ids) + 1

\* C18: an element's id goes into seen_ad_ids when it is first read, whether
\* or not the element is then collected; seen_ad_ids holds the id of every
\* listing; an id that is in seen_ad_ids without a listing never gets one.
C18_SeenBeforeFields == [][SeenStep]_vars

\* C18 witness: an element carrying an id that was seen and discarded has
\* just been skipped.
C18_Witness ==
    /\ branch = "dup"
    /\ captured_ads = <<>>
    /\ seen_ad_ids # {}

\* C19: every listing of captured_ads has a price of at least 1.
C19_PositivePrice ==
    \A i \in 1..Len(captured_ads) : captured_ads[i].price >= 1

\* C19 witness: an element whose price text ("50 din") cleans to 0 has just
\* been discarded.
C19_Witness ==
    /\ branch = "zero"
    /\ pc = "extract"

\* C20: an entry whose result is not "YES" gets no messaging call.
C20_OnlyPositive ==
    \A k \in 1..Len(deals) :
        (deals[k].kind = "ok" /\ deals[k].result # "YES") => ~Called(k)

====
